---- MODULE Spec2Model ----
(***************************************************************************)
(* Model of the two terminal dashboards of OPsys-Finals:                   *)
(*   src/another_monitor.py  (variant "another": PID filter only)          *)
(*   src/system_monitor.py   (variant "system": name + PID filter,         *)
(*                            per-process I/O share)                       *)
(* Both run one loop, monitor_processes: sample, draw, poll one key,       *)
(* dispatch.  psutil and curses are the environment: what they return is   *)
(* an input of the actions, what curses raises is AddstrFails.             *)
(*                                                                         *)
(* Numbers: a percentage is an integer count of tenths of a percent        *)
(* (psutil rounds cpu_percent to one decimal), so 80.0% is 800.            *)
(* Text: a string the code formats or parses is a sequence of one-letter   *)
(* strings; last_message is a sequence of pieces (literals and letters).   *)
(***************************************************************************)
EXTENDS Integers, Sequences, FiniteSets, TLC

(***************************************************************************)
(* Bounds of the model.                                                    *)
(***************************************************************************)
MaxProcs == 3        \* most processes one enumeration returns
NumCores == 1        \* len(psutil.cpu_percent(percpu=True))

(***************************************************************************)
(* Python values.                                                          *)
(***************************************************************************)
None == -1           \* filter_pid = None
NoneStr == <<"N", "o", "n", "e">>      \* str(None), get_size falling off its loop

Min(a, b) == IF a < b THEN a ELSE b
Max(a, b) == IF a > b THEN a ELSE b

RECURSIVE Reverse(_)
Reverse(s) == IF s = <<>> THEN <<>> ELSE Reverse(Tail(s)) \o <<Head(s)>>

\* s[:n] of Python: a negative n counts from the end of the list.
Slice(s, n) ==
    LET stop == IF n < 0 THEN Max(Len(s) + n, 0) ELSE Min(n, Len(s))
    IN  SubSeq(s, 1, stop)

(***************************************************************************)
(* Characters: code points of the letters the model uses, str.lower,       *)
(* str.strip, str.isdigit, int().                                          *)
(***************************************************************************)
DigitChars == <<"0", "1", "2", "3", "4", "5", "6", "7", "8", "9">>
UpperChars == <<"A", "B", "C", "D", "E", "F", "G", "H", "I", "J", "K", "L", "M",
                "N", "O", "P", "Q", "R", "S", "T", "U", "V", "W", "X", "Y", "Z">>
LowerChars == <<"a", "b", "c", "d", "e", "f", "g", "h", "i", "j", "k", "l", "m",
                "n", "o", "p", "q", "r", "s", "t", "u", "v", "w", "x", "y", "z">>

IndexIn(c, table) ==
    IF \E i \in 1..Len(table) : table[i] = c
    THEN CHOOSE i \in 1..Len(table) : table[i] = c
    ELSE 0

Ord(c) ==
    IF IndexIn(c, DigitChars) > 0 THEN 47 + IndexIn(c, DigitChars)
    ELSE IF IndexIn(c, UpperChars) > 0 THEN 64 + IndexIn(c, UpperChars)
    ELSE IF IndexIn(c, LowerChars) > 0 THEN 96 + IndexIn(c, LowerChars)
    ELSE IF c = " " THEN 32
    ELSE IF c = "%" THEN 37
    ELSE IF c = "." THEN 46
    ELSE IF c = ":" THEN 58
    ELSE IF c = "|" THEN 124
    ELSE 0

\* Python's < on str: by code point, a proper prefix is smaller.
RECURSIVE StrLess(_, _)
StrLess(a, b) ==
    IF b = <<>> THEN FALSE
    ELSE IF a = <<>> THEN TRUE
    ELSE LET x == Ord(Head(a))
             y == Ord(Head(b))
         IN  IF x # y THEN x < y ELSE StrLess(Tail(a), Tail(b))

lower_char(c) == IF IndexIn(c, UpperChars) > 0 THEN LowerChars[IndexIn(c, UpperChars)] ELSE c
lower(s) == [i \in 1..Len(s) |-> lower_char(s[i])]

\* needle in hay
Contains(hay, needle) ==
    \E i \in 0..(Len(hay) - Len(needle)) :
        \A j \in 1..Len(needle) : hay[i + j] = needle[j]

RECURSIVE lstrip(_)
lstrip(s) == IF s # <<>> /\ Head(s) = " " THEN lstrip(Tail(s)) ELSE s
strip(s) == Reverse(lstrip(Reverse(lstrip(s))))

isdigit(s) == s # <<>> /\ \A i \in 1..Len(s) : IndexIn(s[i], DigitChars) > 0

RECURSIVE DigitsValue(_, _)
DigitsValue(s, acc) ==
    IF s = <<>> THEN acc
    ELSE DigitsValue(Tail(s), acc * 10 + (IndexIn(Head(s), DigitChars) - 1))

\* int(s) raises ValueError unless s, stripped, is a run of digits
\* (signs and underscores are outside the letters the model types).
int_raises(s) == ~isdigit(strip(s))
int(s) == DigitsValue(strip(s), 0)

(***************************************************************************)
(* Number formatting: f"{x:.2f}" of the exact quotient n / d, rounded to   *)
(* two decimals, ties to even, as the float formatting does for a value    *)
(* that is exact in binary (an integer divided by a power of 1024).        *)
(***************************************************************************)
RECURSIVE NatStr(_)
NatStr(n) ==
    IF n < 10 THEN <<DigitChars[n + 1]>>
    ELSE NatStr(n \div 10) \o <<DigitChars[(n % 10) + 1]>>

Hundredths(n, d) ==
    LET q == (n * 100) \div d
        r == (n * 100) % d
    IN  IF 2 * r > d \/ (2 * r = d /\ q % 2 = 1) THEN q + 1 ELSE q

Fmt2(n, d) ==
    LET h == Hundredths(n, d)
    IN  NatStr(h \div 100) \o <<".", DigitChars[((h % 100) \div 10) + 1], DigitChars[(h % 10) + 1]>>

\* get_size: for unit in ["", "K", "M", "G", "T", "P"]: if bytes < factor: return ...
\* The number in "bytes" is m * factor^e / d: e > 0 only for a byte count
\* beyond the integers of the model, and "bytes /= factor" takes one from e
\* before it multiplies d.
Units == <<<<>>, <<"K">>, <<"M">>, <<"G">>, <<"T">>, <<"P">>>>
factor == 1024

\* the loop with "if bytes <= factor"
RECURSIVE get_size_loop_inclusive(_, _, _, _)
get_size_loop_inclusive(m, e, d, i) ==
    IF i > Len(Units) THEN NoneStr
    ELSE IF e > 0 /\ m > 0
         THEN IF e = 1 /\ m = 1 THEN Fmt2(factor, 1) \o Units[i] \o <<"B">>
              ELSE get_size_loop_inclusive(m, e - 1, d, i + 1)
    ELSE IF m <= factor * d THEN Fmt2(m, d) \o Units[i] \o <<"B">>
    ELSE get_size_loop_inclusive(m, 0, d * factor, i + 1)

RECURSIVE get_size_loop(_, _, _, _)
get_size_loop(m, e, d, i) ==
    IF i > Len(Units) THEN NoneStr
    ELSE IF e > 0 /\ m > 0 THEN get_size_loop(m, e - 1, d, i + 1)
    ELSE IF m \div d < factor THEN Fmt2(m, d) \o Units[i] \o <<"B">>
    ELSE get_size_loop(m, 0, d * factor, i + 1)

get_size(bytes) == get_size_loop(bytes, 0, 1, 1)

(***************************************************************************)
(* The process table psutil enumerates.  process_iter yields processes in  *)
(* ascending pid order; one record is process.info: io is <<>> when        *)
(* io_counters is None, <<read_bytes, write_bytes>> otherwise; name is     *)
(* <<>> when psutil reports no name.                                       *)
(***************************************************************************)
Pool ==
    << [pid |-> 1, name |-> <<"s", "s", "h">>,      cpu_percent |-> 800, rss |-> 1536,    io |-> <<2048, 0>>],
       [pid |-> 2, name |-> <<"B", "A", "S", "H">>, cpu_percent |-> 800, rss |-> 1536,    io |-> <<512, 512>>],
       [pid |-> 3, name |-> <<>>,                   cpu_percent |-> 400, rss |-> 2048,    io |-> <<>>],
       [pid |-> 4, name |-> <<"i", "n", "i", "t">>, cpu_percent |-> 900, rss |-> 1048576, io |-> <<1536, 512>>] >>

\* the members of Pool whose index is in S, in enumeration order
RECURSIVE Enumerate(_, _)
Enumerate(S, i) ==
    IF i > Len(Pool) THEN <<>>
    ELSE (IF i \in S THEN <<Pool[i]>> ELSE <<>>) \o Enumerate(S, i + 1)

Snapshots == { Enumerate(S, 1) : S \in { T \in SUBSET (1..Len(Pool)) : Cardinality(T) <= MaxProcs } }

io_bytes(p) == IF p.io = <<>> THEN 0 ELSE p.io[1] + p.io[2]

\* get_total_disk_io over the table its own process_iter sees; a process whose
\* io_counters() raises AccessDenied is skipped.
RECURSIVE get_total_disk_io(_)
get_total_disk_io(table) ==
    IF table = <<>> THEN 0 ELSE io_bytes(Head(table)) + get_total_disk_io(Tail(table))

Unknown == <<"U", "n", "k", "n", "o", "w", "n">>

\* one tuple of get_processes_info; fields are addressed by the Python index + 1
\* another: (pid, name, cpu_percent, memory_usage, memory_percent, disk_usage, disk_bytes)
info_another(p) ==
    << p.pid,
       IF p.name = <<>> THEN Unknown ELSE p.name,
       p.cpu_percent,
       get_size(p.rss),
       p.rss,
       IF p.io = <<>> THEN <<"0", "B">> ELSE get_size(p.io[1] + p.io[2]),
       io_bytes(p) >>

\* system: (pid, name, cpu_percent, memory_usage, disk_usage, process_io)
ZeroDivisionError == <<"Z", "e", "r", "o", "D", "i", "v", "i", "s", "i", "o", "n", "E", "r", "r", "o", "r">>

\* percent_usage without "if total_io > 0 else 0": the division raises
percent_usage_str_unguarded(process_io, total_io) ==
    IF total_io # 0 THEN Fmt2(process_io * 100, total_io) ELSE ZeroDivisionError

percent_usage_str(process_io, total_io) ==
    IF total_io > 0 THEN Fmt2(process_io * 100, total_io) ELSE <<"0", ".", "0", "0">>

disk_usage_system(p, total_io) ==
    LET read_bytes  == IF p.io = <<>> THEN 0 ELSE p.io[1]
        write_bytes == IF p.io = <<>> THEN 0 ELSE p.io[2]
    IN  <<"R", ":", " ">> \o get_size(read_bytes) \o <<" ", "W", ":", " ">> \o get_size(write_bytes)
        \o <<" ", "|", " ", "%", ":", " ">> \o percent_usage_str(read_bytes + write_bytes, total_io) \o <<"%">>

info_system(p, total_io) ==
    << p.pid,
       IF p.name = <<>> THEN Unknown ELSE p.name,
       p.cpu_percent,
       get_size(p.rss),
       disk_usage_system(p, total_io),
       io_bytes(p) >>

\* key_index = 2 if sort_by == "cpu" else 4
key_index(sort) == IF sort = "cpu" THEN 2 ELSE 4

\* x[key_index] < y[key_index]: index 4 of a system tuple is the disk_usage
\* string, every other key is a number.
key_less(v, k, x, y) ==
    IF v = "system" /\ k = 4 THEN StrLess(x[k + 1], y[k + 1]) ELSE x[k + 1] < y[k + 1]

\* sorted(): stable; with reverse=True the list is reversed, sorted, reversed.
RECURSIVE insort(_, _, _, _)
insort(v, k, s, x) ==
    IF s = <<>> THEN <<x>>
    ELSE IF key_less(v, k, x, Head(s)) THEN <<x>> \o s
    ELSE <<Head(s)>> \o insort(v, k, Tail(s), x)

RECURSIVE sorted_asc(_, _, _, _)
sorted_asc(v, k, done, rest) ==
    IF rest = <<>> THEN done
    ELSE sorted_asc(v, k, insort(v, k, done, Head(rest)), Tail(rest))

\* sorted() with its reverse argument ignored
sorted_ignoring_reverse(v, k, s, reverse) == sorted_asc(v, k, <<>>, s)

sorted(v, k, s, reverse) ==
    IF reverse THEN Reverse(sorted_asc(v, k, <<>>, Reverse(s)))
    ELSE sorted_asc(v, k, <<>>, s)

get_processes_info(v, table, total_io, sort, asc) ==
    LET infos == [i \in 1..Len(table) |->
                    IF v = "another" THEN info_another(table[i]) ELSE info_system(table[i], total_io)]
    IN  sorted(v, key_index(sort), infos, ~asc)

(***************************************************************************)
(* curses.  addstr(y, x, text) raises curses.error when (y, x) is outside  *)
(* the window or when the text reaches the window's last cell (text past   *)
(* the right edge wraps onto the next row); n is len(text).                *)
(***************************************************************************)
AddstrFails(h, w, y, x, n) ==
    \/ y < 0 \/ y >= h
    \/ x < 0 \/ x >= w
    \/ n >= (h - y) * w - x

\* len(text.ljust(n))
ljust_len(len, n) == Max(len, n)

\* a try block of addstr calls under "except curses.error: pass": the first
\* call that raises ends the block; the result is the number of calls dropped
RECURSIVE try_block(_, _, _)
try_block(h, w, reqs) ==
    IF reqs = <<>> THEN 0
    ELSE IF AddstrFails(h, w, Head(reqs)[1], Head(reqs)[2], Head(reqs)[3]) THEN 1
    ELSE try_block(h, w, Tail(reqs))

(***************************************************************************)
(* display_bar.  usage is the pair <<n, d>>: the percentage n / d.         *)
(***************************************************************************)
max_value == 100     \* the default of the parameter; no call passes another

\* int(a / b), b > 0: towards zero
trunc_div(a, b) == IF a >= 0 THEN a \div b ELSE -((-a) \div b)

\* bar_length without the min(..., width - 20)
bar_length_unclamped(usage, w, maxv) ==
    trunc_div(usage[1] * (w - 20), usage[2] * maxv)

bar_length(usage, w, maxv) ==
    Min(trunc_div(usage[1] * (w - 20), usage[2] * maxv), w - 20)

bar_text_len(label, usage, w) ==
    Len(label) + Len(": [") + Max(Max(bar_length(usage, w, max_value), 0), w - 20) + Len("] ")
        + Len(Fmt2(usage[1], usage[2])) + Len("%")

\* what one call raises: the format width w - 20 must not be negative
\* (ValueError), then the addstr of the call
display_bar_raises(h, w, y, label, usage) ==
    IF w - 20 < 0 THEN "ValueError"
    ELSE IF AddstrFails(h, w, y, 0, bar_text_len(label, usage, w)) THEN "curses.error"
    ELSE "none"

core_label(i) == "Core " \o DigitChars[(i % 10) + 1]

\* the display_bar calls of one tick, in program order (a core bar is called
\* only under its "if i + 3 < height" / "if i + 4 < height")
core_bars(v, h, s) ==
    LET first == IF v = "another" THEN 3 ELSE 4
        RECURSIVE from(_)
        from(i) ==
            IF i >= Len(s.core_usages) THEN <<>>
            ELSE (IF i + first < h
                  THEN <<[y |-> first + i, label |-> core_label(i), usage |-> <<s.core_usages[i + 1], 10>>]>>
                  ELSE <<>>) \o from(i + 1)
    IN  from(0)

bar_calls(v, h, s, total_disk_io) ==
    IF v = "another"
    THEN << [y |-> 0, label |-> "CPU Usage",    usage |-> <<s.cpu_usage, 10>>],
            [y |-> 1, label |-> "Memory Usage", usage |-> <<s.memory_percent, 10>>],
            [y |-> 2, label |-> "Disk Usage",   usage |-> <<s.disk_percent, 10>>] >>
         \o core_bars(v, h, s)
    ELSE (IF h > 3
          THEN << [y |-> 0, label |-> "CPU   ", usage |-> <<s.cpu_usage, 10>>],
                  [y |-> 1, label |-> "Memory", usage |-> <<s.memory_percent, 10>>] >>
          ELSE <<>>)
         \o << [y |-> 2, label |-> "Disk  ", usage |-> <<total_disk_io * 100, s.disk_total>>] >>
         \o core_bars(v, h, s)

\* the exception of the first call that raises, "none" when none does
RECURSIVE bars_raise(_, _, _)
bars_raise(h, w, calls) ==
    IF calls = <<>> THEN "none"
    ELSE LET r == display_bar_raises(h, w, Head(calls).y, Head(calls).label, Head(calls).usage)
         IN  IF r # "none" THEN r ELSE bars_raise(h, w, Tail(calls))

(***************************************************************************)
(* The texts of the header block and of the table.                         *)
(***************************************************************************)
title         == "Process Monitor (Press 'q' to Quit)"
commands_another == "Commands: [f] Filter by PID | [s] Toggle Sort CPU/Mem | [a] Toggle Asc/Desc | [k] Kill Process"
commands_system  == "Commands: [f] Filter by Name | [p] Filter by PID | [s] Toggle Sort CPU/Mem | [a] Toggle Asc/Desc | [k] Kill Process"
filter_line   == "Filter PID (leave empty to reset): "
search_bar_name == "Search Process Name: "
search_bar_pid  == "Filter PID: "

\* str(filter_pid) if filter_pid else 'None'
filter_pid_len(fpid) == IF fpid # None /\ fpid # 0 THEN Len(NatStr(fpid)) ELSE Len("None")

header_block(v, h, w, fname, fpid) ==
    LET n == NumCores
    IN  IF v = "another"
        THEN << <<3 + n + 1, 0, ljust_len(Len(title), w - 1)>>,
                <<4 + n + 1, 0, ljust_len(Len(commands_another), w - 1)>>,
                <<5 + n + 1, 0, ljust_len(Len(filter_line) + filter_pid_len(fpid), w - 1)>> >>
        ELSE IF h > 9
        THEN << <<5 + n + 1, 0, ljust_len(Len(title), w - 1)>>,
                <<6 + n + 1, 0, ljust_len(Len(commands_system), w - 1)>>,
                <<7 + n + 1, 0, ljust_len(Len(search_bar_name), w - 1)>>,
                <<7 + n + 1, Len(search_bar_name), ljust_len(Len(fname), w - Len(search_bar_name))>>,
                <<8 + n + 1, 0, ljust_len(Len(search_bar_pid), w - 1)>>,
                <<8 + n + 1, Len(search_bar_pid),
                  IF fpid # None /\ fpid # 0 THEN Len(NatStr(fpid))
                  ELSE ljust_len(Len("None"), w - Len(search_bar_pid))>> >>
        ELSE <<>>

header_start_row(v) == IF v = "another" THEN 6 + NumCores ELSE 9 + NumCores

table_header(v, w) ==
    << <<header_start_row(v), 0, 10 + 30 + 10 + 10 + Len("Disk I/O")>>,
       <<header_start_row(v) + 1, 0, Max(Min(w - 1, 80), 0)>> >>

\* color_pair with the upper threshold taken inclusive
color_pair_inclusive(cpu_percent) ==
    IF cpu_percent >= 800 THEN 1
    ELSE IF cpu_percent > 400 THEN 2
    ELSE 3

\* colour pair of a table row
color_pair(cpu_percent) ==
    IF cpu_percent > 800 THEN 1
    ELSE IF cpu_percent > 400 THEN 2
    ELSE 3

\* the unpacking of one tuple and the row drawn for it at line idx:
\*   another: pid, name, cpu_percent, memory_usage, disk_usage, _, _ = process
\*   system:  pid, name, cpu_percent, memory_usage, disk_usage, _ = process
\* disk_usage is the text the row prints for the fifth field.
table_row(v, h, w, process, idx) ==
    LET name         == SubSeq(process[2], 1, Min(28, Len(process[2])))
        memory_usage == process[4]
        disk_usage   == IF v = "another" THEN NatStr(process[5]) ELSE process[5]
        len          == Max(10, Len(NatStr(process[1]))) + Max(30, Len(name)) + 10
                        + Max(10, Len(memory_usage)) + Len(disk_usage)
    IN  [ pid |-> process[1], name |-> name, cpu_percent |-> process[3],
          memory_usage |-> memory_usage, disk_usage |-> disk_usage,
          color |-> color_pair(process[3]), y |-> idx,
          drawn |-> ~AddstrFails(h, w, idx, 0, ljust_len(len, w - 1)) ]

\* apply_filters with the name test made without lower()
apply_filters_case_sensitive(v, listing, fname, fpid) ==
    IF v = "another"
    THEN IF fpid # None /\ fpid # 0
         THEN SelectSeq(listing, LAMBDA p : p[1] = fpid)
         ELSE listing
    ELSE LET named == IF fname # <<>>
                      THEN SelectSeq(listing, LAMBDA p : Contains(p[2], fname))
                      ELSE listing
         IN  IF fpid # None
             THEN SelectSeq(named, LAMBDA p : p[1] = fpid)
             ELSE named

\* the filters of the loop: another tests "if filter_pid:", system tests
\* "if filter_name:" and "if filter_pid is not None:"
apply_filters(v, listing, fname, fpid) ==
    IF v = "another"
    THEN IF fpid # None /\ fpid # 0
         THEN SelectSeq(listing, LAMBDA p : p[1] = fpid)
         ELSE listing
    ELSE LET named == IF fname # <<>>
                      THEN SelectSeq(listing, LAMBDA p : Contains(lower(p[2]), lower(fname)))
                      ELSE listing
         IN  IF fpid # None
             THEN SelectSeq(named, LAMBDA p : p[1] = fpid)
             ELSE named

RECURSIVE MsgLen(_)
MsgLen(m) == IF m = <<>> THEN 0 ELSE Len(Head(m)) + MsgLen(Tail(m))

(***************************************************************************)
(* Inputs of the loop.                                                     *)
(***************************************************************************)
\* <<height, width>> of stdscr.getmaxyx()
TermSizes == { <<24, 80>>, <<16, 80>>, <<14, 80>>, <<11, 80>>, <<4, 80>>, <<2, 80>>, <<24, 19>> }

\* psutil.cpu_percent(), virtual_memory().percent, disk_usage('/'), cpu_percent(percpu=True)
\* (the volume is a small one: the bytes the processes have read and written
\* since they started can be more than the capacity of the volume)
SysSamples ==
    { [cpu_usage |-> 125, memory_percent |-> 505, disk_total |-> 2048, disk_used |-> 512,
       disk_percent |-> 250, core_usages |-> [i \in 1..NumCores |-> 1000]] }

NoSample == [cpu_usage |-> 0, memory_percent |-> 0, disk_total |-> 0, disk_used |-> 0,
             disk_percent |-> 0, core_usages |-> <<>>]

\* getch(): "" is no key pending, "x" any key without a binding
Keys == {"", "q", "f", "p", "s", "a", "k", "x"}

\* what getstr() returns, decoded
PidTexts  == { <<>>, <<"0">>, <<"1">>, <<"1", "a">> }
KillTexts == { <<>>, <<"1">>, <<"1", "a">> }
NameTexts == { <<>>, <<" ", "S", "h", " ">> }

\* psutil.Process(pid).terminate()
KillOutcomes == {"terminated", "NoSuchProcess", "AccessDenied"}

NoFault == [exc |-> "none", at |-> "none"]
NoDispatch == [key |-> "", text |-> <<>>, result |-> "none"]
NoCall == [fn |-> "none", args |-> <<>>, ret |-> <<>>]

VARIABLES
    variant,          \* which program runs: "another" or "system"
    pc,               \* "loop", "rendered", "prompt", "continue", "done", "crashed"
    sort_by,
    ascending,
    filter_name,
    filter_pid,
    last_message,
    echo,             \* curses.echo() is on
    height,
    width,
    sample,           \* the system metrics of this tick
    table,            \* the processes this tick's process_iter returned
    total_io,         \* get_total_disk_io() of this tick
    bars,             \* the display_bar calls of this tick
    listing,          \* what get_processes_info returned
    processes,        \* listing after the filters
    rows,             \* the rows of processes[:max_displayable_processes]
    dropped,          \* draw requests of this tick swallowed by except curses.error
    events,           \* the kinds of the psutil and curses calls of this tick, in program order
    fault,            \* the exception that left monitor_processes
    key,              \* the key polled in this tick
    prompt,           \* the prompt whose getstr is waiting
    dispatched,       \* the last command the dispatcher completed
    call              \* a helper function called on its own: its arguments and result

vars == << variant, pc, sort_by, ascending, filter_name, filter_pid, last_message, echo,
           height, width, sample, table, total_io, bars, listing, processes, rows, dropped,
           events, fault, key, prompt, dispatched, call >>

view   == << sort_by, ascending, filter_name, filter_pid, last_message >>
locals == << height, width, sample, table, total_io, bars, listing, processes, rows, dropped, events >>

Init ==
    /\ variant \in {"another", "system"}
    /\ pc = "loop"
    /\ sort_by = "cpu"
    /\ ascending = FALSE
    /\ filter_name = <<>>
    /\ filter_pid = None
    /\ last_message = <<>>
    /\ echo = FALSE
    /\ height = 0 /\ width = 0
    /\ sample = NoSample
    /\ table = <<>>
    /\ total_io = 0
    /\ bars = <<>>
    /\ listing = <<>>
    /\ processes = <<>>
    /\ rows = <<>>
    /\ dropped = 0
    /\ events = <<>>
    /\ fault = NoFault
    /\ key = ""
    /\ prompt = "none"
    /\ dispatched = NoDispatch
    /\ call = NoCall

\* the locals of the loop body are dead once the tick is over: the next tick
\* assigns each of them before it reads it
ForgetTick ==
    /\ height' = 0 /\ width' = 0
    /\ sample' = NoSample
    /\ table' = <<>>
    /\ total_io' = 0
    /\ bars' = <<>>
    /\ listing' = <<>>
    /\ processes' = <<>>
    /\ rows' = <<>>
    /\ dropped' = 0
    /\ events' = <<>>

(***************************************************************************)
(* One tick from stdscr.clear() to stdscr.refresh().  size, s and snap are *)
(* what the terminal and psutil return.  system_monitor enumerates the     *)
(* processes three times in a tick: get_total_disk_io() for the disk bar,  *)
(* get_total_disk_io() inside get_processes_info, then the process_iter of *)
(* get_processes_info that returns snap; seen_bar and seen are the numbers *)
(* of processes of snap that the first and the second already found (at    *)
(* most one process starts while a tick runs).                             *)
(***************************************************************************)
status_raises(v, h, w, msg) ==
    /\ v = "another" \/ h > 1
    /\ AddstrFails(h, w, h - 2, 0, ljust_len(MsgLen(msg), w - 1))

\* the calls one tick makes to psutil ("sample") and to curses ("draw",
\* "refresh"), in the order of the loop body; a try block of addstr calls is
\* one draw, and raises says what the call lets out of the loop body
Sampling(what)     == [kind |-> "sample", what |-> what, raises |-> "none"]
Drawing(what, exc) == [kind |-> "draw", what |-> what, raises |-> exc]
Refresh            == [kind |-> "refresh", what |-> "refresh", raises |-> "none"]

tick_events(v, h, w, calls, nrows, msg) ==
    LET top     == IF v = "another" \/ h > 3 THEN 3 ELSE 1
        bar(i)  == Drawing(calls[i].label,
                           display_bar_raises(h, w, calls[i].y, calls[i].label, calls[i].usage))
        cores   == [i \in 1..(Len(calls) - top) |-> bar(top + i)]
        header  == IF v = "another" \/ h > 9 THEN <<Drawing("header", "none")>> ELSE <<>>
        status  == IF v = "another" \/ h > 1
                   THEN <<Drawing("status", IF status_raises(v, h, w, msg) THEN "curses.error" ELSE "none")>>
                   ELSE <<>>
    IN  (IF v = "another"
         THEN <<Sampling("cpu_percent"), Sampling("virtual_memory"), Sampling("disk_usage"),
                bar(1), bar(2), bar(3)>>
         ELSE <<Sampling("cpu_percent"), Sampling("virtual_memory")>>
              \o (IF h > 3 THEN <<bar(1), bar(2)>> ELSE <<>>)
              \o <<Sampling("get_total_disk_io"), Sampling("disk_usage"), bar(top)>>)
        \o <<Sampling("cpu_percent(percpu)")>> \o cores \o header
        \o <<Sampling("get_processes_info"), Drawing("table header", "none")>>
        \o [i \in 1..nrows |-> Drawing("row", "none")]
        \o status \o <<Refresh>>

\* the calls made until one raises
RECURSIVE until_raise(_)
until_raise(evs) ==
    IF evs = <<>> THEN <<>>
    ELSE IF Head(evs).raises # "none" THEN <<Head(evs)>>
    ELSE <<Head(evs)>> \o until_raise(Tail(evs))

\* what the state keeps of each call: "sample", "draw" or "refresh"
kinds(evs) == [i \in 1..Len(evs) |-> evs[i].kind]

Render(size, s, snap, seen_bar, seen) ==
    LET h     == size[1]
        w     == size[2]
        total_disk_io == IF variant = "system" THEN get_total_disk_io(SubSeq(snap, 1, seen_bar)) ELSE 0
        tio   == IF variant = "system" THEN get_total_disk_io(SubSeq(snap, 1, seen)) ELSE 0
        calls == bar_calls(variant, h, s, total_disk_io)
        exc   == bars_raise(h, w, calls)
        lst   == get_processes_info(variant, snap, tio, sort_by, ascending)
        procs == apply_filters(variant, lst, filter_name, filter_pid)
        start == header_start_row(variant)
        max_displayable_processes == Min(h - (start + 5), Len(procs))
        shown == Slice(procs, max_displayable_processes)
        rws   == [i \in 1..Len(shown) |-> table_row(variant, h, w, shown[i], start + 2 + (i - 1))]
        drops == try_block(h, w, header_block(variant, h, w, filter_name, filter_pid))
                 + try_block(h, w, table_header(variant, w))
                 + Cardinality({i \in 1..Len(rws) : ~rws[i].drawn})
    IN  /\ pc = "loop"
        /\ height' = h /\ width' = w
        /\ sample' = s
        /\ events' = kinds(until_raise(tick_events(variant, h, w, calls, Len(rws), last_message)))
        /\ UNCHANGED << call, variant, view, echo, prompt, key, dispatched >>
        /\ IF exc # "none"
           THEN \* a display_bar call raised: nothing after it runs
                /\ pc' = "crashed"
                /\ fault' = [exc |-> exc, at |-> "display_bar"]
                /\ total_io' = 0
                /\ bars' = <<>>
                /\ table' = <<>> /\ listing' = <<>> /\ processes' = <<>> /\ rows' = <<>>
                /\ dropped' = 0
           ELSE /\ total_io' = tio
                /\ bars' = [i \in 1..Len(calls) |->
                              [y |-> calls[i].y, label |-> calls[i].label, usage |-> calls[i].usage,
                               filled |-> bar_length(calls[i].usage, w, max_value)]]
                /\ table' = snap
                /\ listing' = lst
                /\ processes' = procs
                /\ rows' = rws
                /\ dropped' = drops
                /\ IF status_raises(variant, h, w, last_message)
                   THEN pc' = "crashed" /\ fault' = [exc |-> "curses.error", at |-> "status"]
                   ELSE pc' = "rendered" /\ fault' = fault

(***************************************************************************)
(* The key poll and the dispatcher.  another_monitor runs getch and every  *)
(* branch inside one "try ... except curses.error: pass"; system_monitor   *)
(* polls and tests 'q' outside the try.                                    *)
(***************************************************************************)
\* a key without a binding, or no key: the loop goes round
NoCommand(k) ==
    /\ pc = "rendered"
    /\ k \in IF variant = "another" THEN {"", "p", "x"} ELSE {"", "x"}
    /\ key' = k
    /\ pc' = "continue"
    /\ dispatched' = [key |-> k, text |-> <<>>, result |-> "none"]
    /\ ForgetTick
    /\ UNCHANGED << call, variant, view, echo, fault, prompt >>

\* 'q': break
Quit ==
    /\ pc = "rendered"
    /\ key' = "q"
    /\ pc' = "done"
    /\ dispatched' = [key |-> "q", text |-> <<>>, result |-> "none"]
    /\ ForgetTick
    /\ UNCHANGED << call, variant, view, echo, fault, prompt >>

\* 's'
ToggleSort ==
    /\ pc = "rendered"
    /\ key' = "s"
    /\ sort_by' = IF sort_by = "cpu" THEN "memory" ELSE "cpu"
    /\ filter_pid' = IF variant = "another" THEN None ELSE filter_pid
    /\ last_message' = IF variant = "another"
                       THEN <<"Sorting by ", IF sort_by' = "cpu" THEN "CPU" ELSE "MEMORY">>
                       ELSE <<"Sorting by ", IF sort_by' = "cpu" THEN "CPU" ELSE "Memory">>
    /\ pc' = "continue"
    /\ dispatched' = [key |-> "s", text |-> <<>>, result |-> "none"]
    /\ ForgetTick
    /\ UNCHANGED << call, variant, ascending, filter_name, echo, fault, prompt >>

\* 'a'
ToggleDirection ==
    /\ pc = "rendered"
    /\ key' = "a"
    /\ ascending' = ~ascending
    /\ last_message' = <<"Sorting in ", IF ascending' THEN "ascending" ELSE "descending", " order">>
    /\ pc' = "continue"
    /\ dispatched' = [key |-> "a", text |-> <<>>, result |-> "none"]
    /\ ForgetTick
    /\ UNCHANGED << call, variant, sort_by, filter_name, filter_pid, echo, fault, prompt >>

\* the addstr calls a prompting branch makes before its getstr
prompt_draws(v, k, h, w) ==
    IF v = "another"
    THEN IF k = "f"
         THEN << <<5, 25, Max(w - 25, 0)>>, <<5, 25, Len("Enter PID: ")>> >>
         ELSE << <<h - 2, 0, ljust_len(Len("Enter PID to kill: "), w - 1)>> >>
    ELSE IF k = "f" THEN << <<h - 3, 0, Len("Enter Process Name: ")>> >>
    ELSE IF k = "p" THEN << <<h - 3, 0, Len("Enter PID: ")>> >>
    ELSE << <<h - 3, 0, Len("Enter PID to kill: ")>> >>

\* a prompting key up to its getstr: another calls curses.echo() before the
\* prompt is drawn, system after; a curses.error of the drawing is swallowed
\* by the except of the dispatcher and the branch is abandoned
OpenPrompt(k, which) ==
    /\ pc = "rendered"
    /\ key' = k
    /\ IF try_block(height, width, prompt_draws(variant, k, height, width)) > 0
       THEN /\ echo' = IF variant = "another" THEN TRUE ELSE echo
            /\ pc' = "continue"
            /\ prompt' = prompt
            /\ dispatched' = [key |-> k, text |-> <<>>, result |-> "curses.error"]
       ELSE /\ echo' = TRUE
            /\ pc' = "prompt"
            /\ prompt' = which
            /\ dispatched' = dispatched
    /\ ForgetTick
    /\ UNCHANGED << call, variant, view, fault >>

PromptFilterPid  == OpenPrompt(IF variant = "another" THEN "f" ELSE "p", "filter_pid")
PromptFilterName == variant = "system" /\ OpenPrompt("f", "filter_name")
PromptKill       == OpenPrompt("k", "kill")

\* filter_pid = int(pid_input) if pid_input.isdigit() else None
EnterFilterPid(text) ==
    /\ pc = "prompt" /\ prompt = "filter_pid"
    /\ filter_pid' = IF isdigit(text) THEN int(text) ELSE None
    /\ echo' = FALSE
    /\ last_message' = <<>>
    /\ pc' = "continue"
    /\ prompt' = "none"
    /\ dispatched' = [key |-> key, text |-> text, result |-> "none"]
    /\ ForgetTick
    /\ UNCHANGED << call, variant, sort_by, ascending, filter_name, fault, key >>

\* filter_name = name_input.strip()
EnterFilterName(text) ==
    /\ pc = "prompt" /\ prompt = "filter_name"
    /\ filter_name' = strip(text)
    /\ echo' = FALSE
    /\ last_message' = <<"Filtering by process name: ">> \o strip(text)
    /\ pc' = "continue"
    /\ prompt' = "none"
    /\ dispatched' = [key |-> key, text |-> text, result |-> "none"]
    /\ ForgetTick
    /\ UNCHANGED << call, variant, sort_by, ascending, filter_pid, fault, key >>

\* the status message of the kill branch for each way the branch can end
kill_message(v, result, text) ==
    IF v = "another"
    THEN IF result = "terminated"
         THEN <<"Process ">> \o NatStr(int(text)) \o <<" terminated successfully.">>
         ELSE IF result \in {"ValueError", "NoSuchProcess"}
         THEN <<"Error: Invalid PID ">> \o text \o <<".">>
         ELSE <<"Error: Access denied to kill PID ">> \o text \o <<".">>
    ELSE IF result = "terminated"
         THEN <<"Terminated process with PID ">> \o text
         ELSE <<"Failed to terminate process with PID ">> \o text

\* the exceptions the kill branch handles itself
kill_handles(v) ==
    IF v = "another" THEN {"ValueError", "NoSuchProcess", "AccessDenied"}
    ELSE {"NoSuchProcess", "AccessDenied"}

\* the text typed at the kill prompt; outcome is what psutil does with the pid
EnterKill(text, outcome) ==
    LET result == IF int_raises(text) THEN "ValueError" ELSE outcome
    IN  /\ pc = "prompt" /\ prompt = "kill"
        /\ echo' = FALSE
        /\ prompt' = "none"
        /\ dispatched' = [key |-> key, text |-> text, result |-> result]
        /\ ForgetTick
        /\ IF result = "terminated" \/ result \in kill_handles(variant)
           THEN /\ last_message' = kill_message(variant, result, text)
                /\ pc' = "continue"
                /\ fault' = fault
           ELSE /\ last_message' = last_message
                /\ pc' = "crashed"
                /\ fault' = [exc |-> result, at |-> "kill"]
        /\ UNCHANGED << call, variant, sort_by, ascending, filter_name, filter_pid, key >>

\* the end of the loop body: back to "while True"
Continue ==
    /\ pc = "continue"
    /\ pc' = "loop"
    /\ key' = ""
    /\ dispatched' = NoDispatch
    /\ UNCHANGED << call, variant, view, echo, locals, fault, prompt >>

\* <<seen_bar, seen>>: how much of snap the two get_total_disk_io() calls of a
\* system_monitor tick found.  The process that starts while the tick runs
\* is the last of snap, and it is followed on the full-size terminal.
Enumerations(v, size, snap) ==
    LET n == Len(snap)
    IN  IF v = "system" /\ n > 0 /\ size = <<24, 80>>
        THEN { <<n, n>>, <<n - 1, n>>, <<n - 1, n - 1>> }
        ELSE { <<n, n>> }

Next ==
    \/ /\ pc = "loop"
       /\ \E size \in TermSizes, s \in SysSamples, snap \in Snapshots :
            \E seen \in Enumerations(variant, size, snap) :
                Render(size, s, snap, seen[1], seen[2])
    \/ \E k \in Keys : NoCommand(k)
    \/ Quit
    \/ ToggleSort
    \/ ToggleDirection
    \/ PromptFilterPid
    \/ PromptFilterName
    \/ PromptKill
    \/ \E text \in PidTexts : EnterFilterPid(text)
    \/ \E text \in NameTexts : EnterFilterName(text)
    \/ \E text \in KillTexts, outcome \in KillOutcomes : EnterKill(text, outcome)
    \/ Continue

Spec == Init /\ [][Next]_vars

(***************************************************************************)
(* The helper functions called on their own, with any argument, before the *)
(* loop starts.                                                            *)
(***************************************************************************)
\* a byte count is m * factor^e
ByteMantissas == {0, 1, 512, 1023, 1024, 1025, 1029, 1034, 1127, 1152, 1535, 1536, 2047,
                  8191, 8192, 1048575}
ByteExponents == 0..6

\* usage as <<n, d>>, max_value and width of a display_bar call
Usages    == { <<0, 10>>, <<5, 10>>, <<125, 10>>, <<500, 10>>, <<999, 10>>, <<1000, 10>>,
               <<1001, 10>>, <<1500, 10>>, <<3000, 10>> }
MaxValues == {1, 50, 100, 150}
Widths    == {0, 10, 18, 19, 20, 21, 40, 80}

\* get_size(m * factor^e)
CallGetSize(m, e) ==
    /\ pc = "loop" /\ call = NoCall
    /\ call' = [fn |-> "get_size", args |-> <<m, e>>, ret |-> get_size_loop(m, e, 1, 1)]
    /\ UNCHANGED << variant, pc, view, echo, locals, fault, key, prompt, dispatched >>

\* display_bar(stdscr, usage, label, y, width, max_value) up to its addstr:
\* bar_length, and the ValueError of a negative format width
CallDisplayBar(usage, w, maxv) ==
    /\ pc = "loop" /\ call = NoCall
    /\ call' = [fn |-> "display_bar", args |-> <<usage, w, maxv>>,
                ret |-> [bar_length |-> bar_length(usage, w, maxv),
                         raises |-> IF w - 20 < 0 THEN "ValueError" ELSE "none"]]
    /\ UNCHANGED << variant, pc, view, echo, locals, fault, key, prompt, dispatched >>

\* the call returns
Return ==
    /\ call # NoCall
    /\ call' = NoCall
    /\ UNCHANGED << variant, pc, view, echo, locals, fault, key, prompt, dispatched >>

CallsNext ==
    \/ \E m \in ByteMantissas, e \in ByteExponents : CallGetSize(m, e)
    \/ \E usage \in Usages, w \in Widths, maxv \in MaxValues : CallDisplayBar(usage, w, maxv)
    \/ Return

Calls == Init /\ [][CallsNext]_vars

(***************************************************************************)
(* The loop on a terminal of 24 rows and 80 columns while three processes  *)
(* run whose cpu_percent stays at 50.0, 90.0 and 10.0: the same handlers,  *)
(* with this answer of getmaxyx and of psutil in every tick.               *)
(***************************************************************************)
ScenarioSize == <<24, 80>>

ScenarioTable ==
    << [pid |-> 1, name |-> <<"w", "e", "b">>, cpu_percent |-> 500, rss |-> 4096, io |-> <<1024, 0>>],
       [pid |-> 2, name |-> <<"d", "b">>,      cpu_percent |-> 900, rss |-> 2048, io |-> <<512, 512>>],
       [pid |-> 3, name |-> <<"s", "h">>,      cpu_percent |-> 100, rss |-> 1024, io |-> <<>>] >>

ScenarioNext ==
    \/ \E s \in SysSamples : Render(ScenarioSize, s, ScenarioTable, Len(ScenarioTable), Len(ScenarioTable))
    \/ \E k \in Keys : NoCommand(k)
    \/ Quit
    \/ ToggleSort
    \/ ToggleDirection
    \/ PromptFilterPid
    \/ PromptFilterName
    \/ PromptKill
    \/ \E text \in PidTexts : EnterFilterPid(text)
    \/ \E text \in NameTexts : EnterFilterName(text)
    \/ \E text \in KillTexts, outcome \in KillOutcomes : EnterKill(text, outcome)
    \/ Continue

Scenario == Init /\ [][ScenarioNext]_vars

(***************************************************************************)
(* Vocabulary of the properties.                                           *)
(***************************************************************************)
Running == {"loop", "rendered", "prompt", "continue"}

\* the process.info record of this tick's enumeration with the given pid,
\* and its place in the enumeration
PlaceOf(p) == CHOOSE i \in 1..Len(table) : table[i].pid = p
RawOf(p)   == table[PlaceOf(p)]

\* the number the view's sort key names: raw cpu percent or raw resident bytes
RawKey(p) == IF sort_by = "cpu" THEN RawOf(p).cpu_percent ELSE RawOf(p).rss

\* the dispatcher has just finished a prompt whose text was read
FilterPidKey == IF variant = "another" THEN "f" ELSE "p"
TextEntered(k) == dispatched.key = k /\ dispatched.result # "curses.error"

(***************************************************************************)
(* C1.  A draw request whose target row or column is outside the terminal  *)
(* is dropped: no curses.error of a draw ever leaves the loop, whatever    *)
(* the terminal size.                                                      *)
(***************************************************************************)
C1_OutOfBoundsDrawIsDropped == fault.exc # "curses.error"

(***************************************************************************)
(* C2.  Whatever text is typed at the filter-by-pid or kill prompt, the    *)
(* dispatcher raises no fault and the loop goes on; a text that is not a   *)
(* run of digits leaves filter_pid cleared, and at the kill prompt it ends *)
(* as an invalid PID without a termination attempt.                        *)
(***************************************************************************)
C2_PromptTextNeverFaults ==
    /\ TextEntered(FilterPidKey) =>
          /\ pc = "continue"
          /\ ~isdigit(dispatched.text) => filter_pid = None
    /\ TextEntered("k") =>
          /\ pc = "continue"
          /\ ~isdigit(dispatched.text) => dispatched.result = "ValueError"

(***************************************************************************)
(* C3.  The rows selected for display are at most available_rows, the      *)
(* terminal height minus the fixed region, taken as 0 when negative: a     *)
(* terminal too small for the fixed region shows no row.                   *)
(***************************************************************************)
C3_RowsWithinAvailableRows ==
    pc = "rendered" => Len(rows) <= Max(height - (header_start_row(variant) + 5), 0)

(***************************************************************************)
(* C4.  The list get_processes_info returns is ordered by the raw number   *)
(* the sort key names (resident bytes for MEMORY, cpu percent for CPU),    *)
(* non-increasing when descending, non-decreasing when ascending.          *)
(***************************************************************************)
C4_ListingOrderedByRawKey ==
    pc = "rendered" =>
        \A i, j \in 1..Len(listing) :
            i < j => IF ascending
                     THEN RawKey(listing[i][1]) <= RawKey(listing[j][1])
                     ELSE RawKey(listing[i][1]) >= RawKey(listing[j][1])

(***************************************************************************)
(* C5.  After a kill command the status message tells which outcome        *)
(* occurred: the message is not the one the program gives, for the same    *)
(* text, to any other outcome (terminated, invalid PID, no such process,   *)
(* access denied).                                                         *)
(***************************************************************************)
C5_KillMessageIdentifiesOutcome ==
    (pc = "continue" /\ TextEntered("k")) =>
        \A other \in ({"terminated"} \cup kill_handles(variant)) \ {dispatched.result} :
            last_message # kill_message(variant, other, dispatched.text)

(***************************************************************************)
(* C6.  A text of digits typed at the filter-by-pid prompt becomes         *)
(* filter_pid, and while filter_pid is set every tick shows only rows of   *)
(* that pid: at most one row, none when no process has the pid.            *)
(***************************************************************************)
C6_PidFilterShowsOnlyThatPid ==
    /\ (pc = "continue" /\ TextEntered(FilterPidKey) /\ isdigit(dispatched.text))
          => filter_pid = int(dispatched.text)
    /\ (pc = "rendered" /\ filter_pid # None)
          => /\ Len(rows) <= 1
             /\ \A i \in 1..Len(rows) : rows[i].pid = filter_pid

(***************************************************************************)
(* C7.  The loop stops running only when the quit key is polled, and then  *)
(* it ends in that tick with the view unchanged; every other tick is       *)
(* followed by another.                                                    *)
(***************************************************************************)
C7_LoopLeavesOnlyByQuit ==
    [][ (pc \in Running /\ pc' \notin Running)
            => (pc = "rendered" /\ key' = "q" /\ pc' = "done" /\ view' = view) ]_vars

(***************************************************************************)
(* C8.  The sort is stable in both directions: two records whose sort key  *)
(* is equal come out in the order of the enumeration.                      *)
(***************************************************************************)
C8_SortIsStable ==
    pc = "rendered" =>
        \A i, j \in 1..Len(listing) :
            (i < j /\ RawKey(listing[i][1]) = RawKey(listing[j][1]))
                => PlaceOf(listing[i][1]) < PlaceOf(listing[j][1])

(***************************************************************************)
(* C9.  The colour of a displayed row follows from the cpu percent of its  *)
(* process alone: pair 1 (high) iff cpu > 80, pair 2 (moderate) iff        *)
(* 40 < cpu <= 80, pair 3 (low) iff cpu <= 40.                             *)
(***************************************************************************)
C9_SeverityFromCpu ==
    pc = "rendered" =>
        \A i \in 1..Len(rows) :
            LET cpu == RawOf(rows[i].pid).cpu_percent
            IN  /\ rows[i].color \in {1, 2, 3}
                /\ rows[i].color = 1 <=> cpu > 800
                /\ rows[i].color = 2 <=> (400 < cpu /\ cpu <= 800)
                /\ rows[i].color = 3 <=> cpu <= 400

\* a tick that shows a row at each threshold and one above the upper one
C9_Witness ==
    /\ pc = "rendered"
    /\ \E i \in 1..Len(rows) : rows[i].cpu_percent = 800 /\ rows[i].color = 2
    /\ \E i \in 1..Len(rows) : rows[i].cpu_percent = 400 /\ rows[i].color = 3
    /\ \E i \in 1..Len(rows) : rows[i].cpu_percent = 900 /\ rows[i].color = 1

(***************************************************************************)
(* C10.  In system_monitor the rows before truncation are exactly the      *)
(* records of the sorted list that pass every filter that is set (name:    *)
(* the filter is a substring of the name, letter case ignored; pid:        *)
(* equality), in the order of the sorted list; a filter that is not set    *)
(* excludes nothing.                                                       *)
(***************************************************************************)
SameLetter(a, b) == lower_char(a) = lower_char(b)

NameMatches(name) ==
    \E off \in 0..Len(name) :
        /\ off + Len(filter_name) <= Len(name)
        /\ \A j \in 1..Len(filter_name) : SameLetter(name[off + j], filter_name[j])

PassesFilters(t) ==
    /\ filter_name = <<>> \/ NameMatches(t[2])
    /\ filter_pid = None \/ t[1] = filter_pid

C10_FiltersConjoin ==
    (variant = "system" /\ pc = "rendered") =>
        /\ \A i \in 1..Len(listing) :
              (\E j \in 1..Len(processes) : processes[j] = listing[i]) <=> PassesFilters(listing[i])
        /\ \A j \in 1..Len(processes) : \E i \in 1..Len(listing) : listing[i] = processes[j]
        /\ \A j, k \in 1..Len(processes) :
              j < k => \E a, b \in 1..Len(listing) :
                          a < b /\ listing[a] = processes[j] /\ listing[b] = processes[k]

\* both filters set: a record passes the name filter only through its case
\* folding, another passes the name filter and fails the pid filter
C10_Witness ==
    /\ variant = "system" /\ pc = "rendered"
    /\ filter_name # <<>> /\ filter_pid # None
    /\ Len(processes) = 1
    /\ ~Contains(processes[1][2], filter_name)
    /\ \E i \in 1..Len(listing) : NameMatches(listing[i][2]) /\ listing[i][1] # filter_pid

(***************************************************************************)
(* C11.  In every tick the value passed to the whole-disk bar (the bar of   *)
(* row 2) is the used share of the volume, disk_used / disk_total * 100,   *)
(* and so lies between 0 and 100.                                          *)
(***************************************************************************)
DiskBars == { i \in 1..Len(bars) : bars[i].y = 2 }

C11_DiskBarIsUsedShare ==
    pc = "rendered" =>
        \A i \in DiskBars :
            LET usage == bars[i].usage
            IN  /\ usage[1] * sample.disk_total = sample.disk_used * 100 * usage[2]
                /\ 0 <= usage[1]
                /\ usage[1] <= 100 * usage[2]

(***************************************************************************)
(* Vocabulary of the properties of get_size: the text it returns read back *)
(* as a number of hundredths and a unit, and the index k and quotient the  *)
(* claim names.                                                            *)
(***************************************************************************)
RECURSIVE Pow(_, _)
Pow(b, n) == IF n = 0 THEN 1 ELSE b * Pow(b, n - 1)

DotOf(t)   == IndexIn(".", t)
WellFormedSize(t) ==
    /\ DotOf(t) > 1 /\ Len(t) >= DotOf(t) + 2
    /\ isdigit(SubSeq(t, 1, DotOf(t) - 1))
    /\ isdigit(SubSeq(t, DotOf(t) + 1, DotOf(t) + 2))
HundredthsOf(t) == DigitsValue(SubSeq(t, 1, DotOf(t) - 1) \o SubSeq(t, DotOf(t) + 1, DotOf(t) + 2), 0)
UnitOf(t)       == SubSeq(t, DotOf(t) + 3, Len(t))

\* j: the divisions by 1024 that bring the mantissa m below 1024
Divisions(m) == CHOOSE j \in 0..2 : m \div Pow(1024, j) < 1024 /\ \A i \in 0..(j - 1) : m \div Pow(1024, i) >= 1024
\* k: the smallest index with m * 1024^e / 1024^k < 1024
UnitIndex(m, e) == IF m = 0 THEN 0 ELSE e + Divisions(m)

\* t is m * 1024^e / 1024^k to two decimals, followed by the k-th unit
SizeTextIs(t, m, e, units) ==
    LET j == IF m = 0 THEN 0 ELSE Divisions(m)
        D == Pow(1024, j)
        H == HundredthsOf(t)
        diff == IF H * D >= 100 * m THEN H * D - 100 * m ELSE 100 * m - H * D
    IN  /\ WellFormedSize(t)
        /\ 2 * diff <= D
        /\ UnitOf(t) = units[UnitIndex(m, e) + 1]

UnitsBKMGTP   == << <<"B">>, <<"K">>, <<"M">>, <<"G">>, <<"T">>, <<"P">> >>
UnitsWithByte == << <<"B">>, <<"K", "B">>, <<"M", "B">>, <<"G", "B">>, <<"T", "B">>, <<"P", "B">> >>

(***************************************************************************)
(* C12.  For every byte count x with 0 <= x < 1024^6, get_size returns     *)
(* x / 1024^k to two decimals followed by the k-th unit of B, K, M, G, T,  *)
(* P, k the smallest index with x / 1024^k < 1024; so get_size(0) is       *)
(* "0.00B", get_size(1024) "1.00K", get_size(1536) "1.50K" and             *)
(* get_size(1024^3) "1.00G".                                               *)
(***************************************************************************)
C12_HumanizeUnits ==
    (call.fn = "get_size" /\ UnitIndex(call.args[1], call.args[2]) <= 5) =>
        /\ SizeTextIs(call.ret, call.args[1], call.args[2], UnitsBKMGTP)
        /\ call.args = <<0, 0>>    => call.ret = <<"0", ".", "0", "0", "B">>
        /\ call.args = <<1024, 0>> => call.ret = <<"1", ".", "0", "0", "K">>
        /\ call.args = <<1536, 0>> => call.ret = <<"1", ".", "5", "0", "K">>
        /\ call.args = <<1, 3>>    => call.ret = <<"1", ".", "0", "0", "G">>

\* x < 2^53 = 8 * 1024^5: the byte counts a float holds exactly
ExactAsFloat(m, e) ==
    \/ UnitIndex(m, e) <= 4
    \/ UnitIndex(m, e) = 5 /\ m \div Pow(1024, Divisions(m)) < 8

\* C12 as amended: the units are B, KB, MB, GB, TB, PB, for 0 <= x < 2^53;
\* get_size(1024) is "1.00KB", get_size(1536) "1.50KB", get_size(1024^3) "1.00GB".
C12_HumanizeUnitsWithSuffix ==
    (call.fn = "get_size" /\ ExactAsFloat(call.args[1], call.args[2])) =>
        /\ SizeTextIs(call.ret, call.args[1], call.args[2], UnitsWithByte)
        /\ call.args = <<0, 0>>    => call.ret = <<"0", ".", "0", "0", "B">>
        /\ call.args = <<1024, 0>> => call.ret = <<"1", ".", "0", "0", "K", "B">>
        /\ call.args = <<1536, 0>> => call.ret = <<"1", ".", "5", "0", "K", "B">>
        /\ call.args = <<1, 3>>    => call.ret = <<"1", ".", "0", "0", "G", "B">>

\* get_size(1024^3) has returned "1.00GB"
C12_Witness ==
    /\ call.fn = "get_size" /\ call.args = <<1, 3>>
    /\ call.ret = <<"1", ".", "0", "0", "G", "B">>

(***************************************************************************)
(* C13.  For every usage >= 0, max_value > 0 and width, display_bar        *)
(* computes filled_length = min(floor(usage / max_value * (width - 20)),   *)
(* width - 20); it never exceeds width - 20 and is exactly width - 20      *)
(* whenever usage >= max_value.                                            *)
(***************************************************************************)
FilledLengthClamped(usage, w, maxv, filled) ==
    /\ filled = Min((usage[1] * (w - 20)) \div (usage[2] * maxv), w - 20)
    /\ filled <= w - 20
    /\ usage[1] >= maxv * usage[2] => filled = w - 20

C13_FilledLengthClamped ==
    call.fn = "display_bar" =>
        FilledLengthClamped(call.args[1], call.args[2], call.args[3], call.ret.bar_length)

\* C13 as amended: for every terminal width of 20 columns or more.
C13_FilledLengthClampedFrom20 ==
    (call.fn = "display_bar" /\ call.args[2] >= 20) =>
        FilledLengthClamped(call.args[1], call.args[2], call.args[3], call.ret.bar_length)

\* display_bar(usage 150, max_value 100, width 40) has filled 20 cells
C13_Witness ==
    /\ call.fn = "display_bar" /\ call.args = << <<1500, 10>>, 40, 100 >>
    /\ call.ret.bar_length = 20

(***************************************************************************)
(* C14.  On a 24x80 terminal with processes whose CPU% are 90, 50 and 10,  *)
(* the tick built from the initial view (sort CPU, descending, no filter)  *)
(* shows the rows [90, 50, 10] with severities [high, moderate, low]; the  *)
(* tick built from the view a toggle-direction has left shows              *)
(* [10, 50, 90]; the tick built from a view whose filter_pid is the pid of *)
(* the 50% process shows exactly that row: each tick is built from the     *)
(* view as the dispatcher of the tick before left it.                      *)
(***************************************************************************)
CpuOfRows   == [i \in 1..Len(rows) |-> rows[i].cpu_percent]
ColorOfRows == [i \in 1..Len(rows) |-> rows[i].color]

C14_ScenarioRows ==
    pc = "rendered" =>
        /\ (sort_by = "cpu" /\ ~ascending /\ filter_pid = None /\ filter_name = <<>>)
              => CpuOfRows = <<900, 500, 100>> /\ ColorOfRows = <<1, 2, 3>>
        /\ (sort_by = "cpu" /\ ascending /\ filter_pid = None /\ filter_name = <<>>)
              => CpuOfRows = <<100, 500, 900>> /\ ColorOfRows = <<3, 2, 1>>
        /\ (filter_pid = 1 /\ filter_name = <<>>)
              => Len(rows) = 1 /\ rows[1].pid = 1 /\ rows[1].cpu_percent = 500 /\ rows[1].drawn

\* the tick after a toggle-direction and a filter on the pid of the 50% process
C14_Witness ==
    /\ pc = "rendered"
    /\ sort_by = "cpu" /\ ascending /\ filter_pid = 1
    /\ Len(rows) = 1 /\ rows[1].cpu_percent = 500

(***************************************************************************)
(* C15.  In system_monitor, when the system-wide I/O total of a tick is 0  *)
(* every process's I/O share reads 0.00 and no division by zero faults the *)
(* building of the rows; when the total is positive the share is           *)
(* process_io / total * 100 (to the two decimals shown).                   *)
(***************************************************************************)
\* the share in a disk_usage text "R: .. W: .. | %: <share>%"
ShareIn(text) == SubSeq(text, IndexIn("|", text) + 5, Len(text) - 1)
ShareText(t)  == ShareIn(t[5])

ShareIs(t) ==
    LET h    == HundredthsOf(ShareText(t))
        want == t[6] * 10000
        diff == IF h * total_io >= want THEN h * total_io - want ELSE want - h * total_io
    IN  /\ WellFormedSize(ShareText(t))
        /\ Len(ShareText(t)) = DotOf(ShareText(t)) + 2
        /\ 2 * diff <= total_io

C15_ShareZeroWhenTotalZero ==
    /\ variant = "system" => fault.exc # "ZeroDivisionError"
    /\ (variant = "system" /\ pc = "rendered") =>
          \A i \in 1..Len(listing) :
              /\ total_io = 0 => ShareText(listing[i]) = <<"0", ".", "0", "0">>
              /\ total_io > 0 => ShareIs(listing[i])

\* a tick whose total is 0 although a listed process has read or written
C15_Witness ==
    /\ variant = "system" /\ pc = "rendered"
    /\ total_io = 0
    /\ \E i \in 1..Len(listing) :
          listing[i][6] > 0 /\ ShareText(listing[i]) = <<"0", ".", "0", "0">>

(***************************************************************************)
(* C16.  Every tick runs in four phases one after the other: every psutil  *)
(* call of the tick (system metrics and process enumeration) is made       *)
(* before the first draw request, every draw and the refresh are made      *)
(* before the key is polled, and a tick polls exactly one key, after its   *)
(* rendering: the step after the refresh is the poll, and the next         *)
(* rendering belongs to a new tick.                                        *)
(***************************************************************************)
SamplingBeforeDrawing ==
    \A i, j \in 1..Len(events) :
        (events[i] = "draw" /\ events[j] = "sample") => j < i

DrawingBeforePoll ==
    pc = "rendered" =>
        /\ events[Len(events)] = "refresh"
        /\ \A i \in 1..(Len(events) - 1) : events[i] # "refresh"

C16_TickInFourPhases ==
    /\ [](SamplingBeforeDrawing /\ DrawingBeforePoll)
    /\ [][ /\ pc' = "rendered" => pc = "loop"
           /\ pc = "rendered" => (key' \in Keys /\ pc' \in {"continue", "prompt", "done"}) ]_vars

(***************************************************************************)
(* C17.  Toggle-sort changes only sort_by (cpu <-> memory) and the status  *)
(* message, toggle-direction only ascending and the status message: in     *)
(* both programs neither changes filter_pid or filter_name, so a filter    *)
(* set before a toggle is still set in the next tick.                      *)
(***************************************************************************)
C17_TogglesKeepFilters ==
    [][ /\ (pc = "rendered" /\ key' = "s") =>
              /\ sort_by' # sort_by /\ sort_by' \in {"cpu", "memory"}
              /\ ascending' = ascending
              /\ filter_pid' = filter_pid /\ filter_name' = filter_name
        /\ (pc = "rendered" /\ key' = "a") =>
              /\ ascending' = ~ascending
              /\ sort_by' = sort_by
              /\ filter_pid' = filter_pid /\ filter_name' = filter_name ]_vars

(***************************************************************************)
(* C18.  Echo is on only while a prompt waits for its text: at the start   *)
(* of every tick, after any commands, texts and terminal sizes (a size at  *)
(* which the drawing of the prompt fails included), echo is off.           *)
(***************************************************************************)
C18_EchoOffAtTickStart ==
    /\ pc = "loop" => ~echo
    /\ echo => pc = "prompt"

(***************************************************************************)
(* C19.  In system_monitor, whatever the enumerations of one tick find,    *)
(* every I/O share displayed in the tick lies between 0 and 100 and the    *)
(* shares displayed in the tick add up to at most 100 (half a hundredth of *)
(* rounding allowed for each).                                             *)
(***************************************************************************)
RECURSIVE SumOfShares(_)
SumOfShares(rs) ==
    IF rs = <<>> THEN 0
    ELSE HundredthsOf(ShareIn(Head(rs).disk_usage)) + SumOfShares(Tail(rs))

C19_SharesWithinWhole ==
    (variant = "system" /\ pc = "rendered") =>
        /\ \A i \in 1..Len(rows) :
              /\ WellFormedSize(ShareIn(rows[i].disk_usage))
              /\ HundredthsOf(ShareIn(rows[i].disk_usage)) <= 10000
        /\ 2 * SumOfShares(rows) <= 20000 + Len(rows)

(***************************************************************************)
(* C20.  Every table row shows fields of one process record in the columns *)
(* the header names: its pid, its name, its cpu percent, its resident      *)
(* memory humanized in the Memory column and its read plus written bytes   *)
(* humanized in the Disk I/O column (in system_monitor: the read and the   *)
(* written bytes humanized, with the share), never another field.          *)
(***************************************************************************)
HumanizedIO(p) ==
    IF variant = "system" THEN {disk_usage_system(p, total_io)}
    ELSE {get_size(io_bytes(p))} \cup (IF p.io = <<>> THEN {<<"0", "B">>} ELSE {})

C20_RowColumnsOfOneRecord ==
    pc = "rendered" =>
        \A i \in 1..Len(rows) :
            LET p == RawOf(rows[i].pid)
            IN  /\ rows[i].name = (IF p.name = <<>> THEN Unknown ELSE SubSeq(p.name, 1, Min(28, Len(p.name))))
                /\ rows[i].cpu_percent = p.cpu_percent
                /\ rows[i].memory_usage = get_size(p.rss)
                /\ rows[i].disk_usage \in HumanizedIO(p)

====
